---------------------------- MODULE Spec2Model ----------------------------
(***************************************************************************)
(* State-machine model of the workout session screen (WorkoutScreen) of    *)
(* the fitness client: React state of the component, the closures of the   *)
(* asynchronous handlers that are suspended at an await, the two interval  *)
(* tickers and the remote collaborator (plan day on the server).           *)
(*                                                                         *)
(* Conventions                                                             *)
(*  - currentExerciseIndex is 0-based as in the source; TLA+ sequences are *)
(*    1-based, so element i of the source is element i+1 here.             *)
(*  - An async handler is one action per segment between awaits.  The      *)
(*    outcome of a remote call is drawn when the call is issued and kept   *)
(*    in the handler's position (cPc, sPc); the next segment consumes it.  *)
(*  - A handler closure reads the values of the render in which it was     *)
(*    created: they are copied into cIdx/cSets (completeExercise) and      *)
(*    sIdx/sAll (skipCurrentExercise) when the handler starts.  Functional *)
(*    updates (setX(prev => ...)) read the live state.                     *)
(*  - React effects run to quiescence inside the action that changes their *)
(*    dependencies.                                                        *)
(*  - The Complete/Skip confirmation modals only forward to the handlers   *)
(*    and their Cancel buttons are never disabled, so a press of the       *)
(*    confirm button is one user step.                                     *)
(***************************************************************************)
EXTENDS Integers, Sequences, FiniteSets, TLC

\* ------------------------------------------------------------------ bounds
MaxExercises == 2   \* plan days have 1..MaxExercises exercises
MaxTime      == 2   \* the workout clock is observed for MaxTime ticks
MaxRest      == 2   \* longest target rest time in the plan
MaxFail      == 1   \* remote calls that may fail in one behaviour
MaxLoads     == 1   \* loadWorkout calls in flight at once
MaxCalls     == 2   \* mark-day-complete calls counted (the count saturates)
MaxOffset    == 2   \* zone offsets range over -MaxOffset..MaxOffset hours
MaxDays      == 2   \* plan days in the response of fetchActiveWorkout
MaxRace      == 3   \* exercises of the plan day of SpecRace
MaxFetch     == 3   \* calls of one fetch function of useDashboard
MaxFilters   == 2   \* distinct filter objects handed to useDashboard
MaxOver      == 1   \* steps outside the six onboarding steps that are followed
MaxSubmit    == 2   \* onSubmit calls of the onboarding form that are counted

VARIABLES
  \* remote collaborator
  planN,                 \* number of exercises of a plan day
  planDays,              \* the plan days of the active workout on the server:
                         \* date and completion flag, in listed order
  fails,                 \* remote failures so far (bounded by MaxFail)
  \* device
  now, tzOffset,         \* the instant (hours since the epoch) and the
                         \* zone's offset from UTC (hours)
  \* component life and interval handles
  mounted,               \* the screen is mounted
  timerRef,              \* timerRef.current is a live interval
  clockTickers,          \* live intervals made by the timer effect
  restTimerRef,          \* restTimerRef.current is a live interval
  restTickers,           \* live intervals made by the rest timer effect
  \* calendar screen
  selectedDate,          \* its selected date (<<>> before it mounts)
  \* core state (useState)
  loading, error, workout, currentExerciseIndex,
  isWorkoutStarted, isWorkoutCompleted, isPaused, refreshing,
  workoutTimer, exerciseTimer,
  exerciseProgress, skippedExercises,
  showRestCompleteModal, isCompletingExercise, isSkippingExercise,
  isRestTimerActive, isRestTimerPaused, restTimerCountdown,
  \* WorkoutContext
  isWorkoutInProgress,
  \* native alert on display ("none" when there is none)
  alert,
  \* suspended handlers
  cPc, cIdx, cSets,      \* completeExercise: position and closure
  sPc, sIdx, sAll,       \* skipCurrentExercise: position and closure
  loadsPlain, loadsForce,\* loadWorkout(false) / loadWorkout(true) in flight
  \* history
  markCalls,             \* markPlanDayAsComplete calls issued
  exerciseLogs,          \* per exercise, the createExerciseLog calls that
                         \* succeeded (the count saturates at MaxCalls)
  refreshRange,          \* startDate/endDate of the latest refreshDashboard
                         \* call (<<>> before the first)
  clockTicks,            \* clock ticks delivered since the session started
  abandoned,             \* the abandonment reset has run at least once
  restStart, restTicks,  \* of the latest rest countdown: the value it was
                         \* set to and the ticks since (0 once cancelled)
  restFor,               \* index of the exercise the rest timer was started on
  \* useDashboard (useState)
  dashboardData, weightAccuracy,
  dashLoading, dashError,   \* its loading and error
  \* useDashboard: requests
  waCalls, waIssued,     \* fetchWeightAccuracy calls in flight (sequence
                         \* number and filters) and calls issued so far
  waLatest,              \* what the latest issued fetchWeightAccuracy call
                         \* produced (null until it settles)
  dmCalls, dmIssued,     \* the same for fetchDashboardMetrics
  \* OnboardingForm (useState)
  currentStep, errors,   \* errors: <<>> when empty, <<step>> when it holds
                         \* the errors validateStep reported for that step
  validSteps,            \* formData, as the steps validateStep accepts for it
  onSubmitCalls,         \* onSubmit calls made
  \* ProfileEditScreen
  profile,               \* useState: <<>> for null, else <<Profile>>
  initialData            \* the initialData prop handed to OnboardingForm
                         \* (<<>> while the form is not rendered)

coreVars  == <<loading, error, workout, currentExerciseIndex, isWorkoutStarted,
               isWorkoutCompleted, isPaused, refreshing, isWorkoutInProgress>>
clockVars == <<workoutTimer, exerciseTimer, clockTicks>>
restVars  == <<isRestTimerActive, isRestTimerPaused, restTimerCountdown,
               showRestCompleteModal, restStart, restTicks, restFor>>
progVars  == <<exerciseProgress, skippedExercises>>
compVars  == <<cPc, cIdx, cSets, isCompletingExercise>>
skipVars  == <<sPc, sIdx, sAll, isSkippingExercise>>
loadVars  == <<loadsPlain, loadsForce>>
fixedVars == <<planN, now, tzOffset>>
envVars   == <<fixedVars, planDays, fails, markCalls, exerciseLogs, abandoned,
               refreshRange>>
lifeVars  == <<mounted, timerRef, clockTickers, restTimerRef, restTickers>>
calVars   == <<selectedDate>>
dashVars  == <<dashboardData, weightAccuracy, dashLoading, dashError,
               waCalls, waIssued, waLatest, dmCalls, dmIssued>>
screenVars == <<coreVars, clockVars, restVars, progVars, compVars, skipVars,
                loadVars, envVars, lifeVars, calVars, alert>>
formVars  == <<currentStep, errors, validSteps, onSubmitCalls>>
profileVars == <<profile, initialData>>
hookVars  == <<dashVars, formVars, profileVars>>
vars == <<screenVars, hookVars>>

\* ------------------------------------------------------------------ dates
\* A date string YYYY-MM-DD is the number of its calendar day (days since the
\* epoch); an instant is a number of hours since the epoch.
HoursPerDay == 24
HistoryDays == 30   \* the dashboard refresh reaches 30 days back
AheadDays   == 7    \* and 7 days ahead

\* new Date(t).toISOString().split("T")[0]: the calendar day of t in UTC.
toISODate(t) == t \div HoursPerDay

\* The calendar day of instant t on a device offset hours ahead of UTC.
localDate(t, offset) == (t + offset) \div HoursPerDay

\* date.setDate(date.getDate() + days): the same local time, days later.
setDate(t, days) == t + days * HoursPerDay

\* getCurrentDate() and formatDateAsString(date) of @/utils: the local
\* YYYY-MM-DD of now, and of the instant a server date stands for.
getCurrentDate == localDate(now, tzOffset)
formatDateAsString(date) == localDate(date, tzOffset)

\* The calendar day the plans of the model are made for, its first instant
\* in UTC, and the instants and offsets the device is observed at.
PlanDate == HistoryDays + MaxOffset
Midnight(day) == day * HoursPerDay
Midday == Midnight(PlanDate) + 12
Instants == {Midnight(PlanDate) + h : h \in {1, 12, 23}}
Offsets == (0 - MaxOffset)..MaxOffset

\* -------------------------------------------------------------- plan days
\* A plan day of the response: its date as the server sends it and its
\* completion flag.
PlanDay(date, isComplete) == [date |-> date, isComplete |-> isComplete]

\* Responses with one plan day, dated on the plan's day.
TodayPlans == {<<PlanDay(Midnight(PlanDate), c)>> : c \in BOOLEAN}

\* Responses with up to MaxDays plan days, dated on the plan's day or on the
\* day after.
AnyPlanDay ==
  {PlanDay(Midnight(d), c) : d \in {PlanDate, PlanDate + 1}, c \in BOOLEAN}
AnyPlans == UNION {[1..n -> AnyPlanDay] : n \in 0..MaxDays}

\* planDays.find(day => formatDateAsString(day.date) === today): the position
\* of the first plan day of today's date, 0 when there is none.
FindToday(days, today) ==
  LET hits == {k \in DOMAIN days : formatDateAsString(days[k].date) = today}
  IN IF hits = {} THEN 0 ELSE CHOOSE k \in hits : \A j \in hits : k <= j

\* The completion flag, on the server, of the plan day of today's date.
serverComplete ==
  LET k == FindToday(planDays, getCurrentDate)
  IN k # 0 /\ planDays[k].isComplete

\* markPlanDayAsComplete(id) as the server applies it.
MarkedComplete(days, id) ==
  IF id \in DOMAIN days THEN [days EXCEPT ![id].isComplete = TRUE] ELSE days

\* ----------------------------------------------------------- useDashboard
\* Filter objects: 0 stands for a call without filters.
Filters == 0..MaxFilters

\* Values of a piece of dashboard state: null, the data the server returns
\* for given filters, and the all-zero fallback of fetchWeightAccuracy.
Null == [kind |-> "null", filter |-> 0]
Data(filters) == [kind |-> "data", filter |-> filters]
Fallback == [kind |-> "fallback", filter |-> 0]

\* How apiRequest settles: a response with success true, a response with
\* success false, or a thrown error.
Outcomes == {"success", "unsuccessful", "thrown"}

\* useDashboard after construction: useState initial values, no request.
DashboardIdle ==
  /\ dashboardData = Null /\ weightAccuracy = Null
  /\ dashLoading = FALSE /\ dashError = FALSE
  /\ waCalls = {} /\ waIssued = 0 /\ waLatest = Null
  /\ dmCalls = {} /\ dmIssued = 0

\* fetchWeightAccuracy(filters) up to its await.
fetchWeightAccuracy(filters) ==
  /\ waIssued < MaxFetch
  /\ weightAccuracy' = Null
  /\ waIssued' = waIssued + 1
  /\ waCalls' = waCalls \cup {[seq |-> waIssued + 1, filter |-> filters]}
  /\ waLatest' = Null
  /\ UNCHANGED <<dashboardData, dashLoading, dashError, dmCalls, dmIssued>>
  /\ UNCHANGED <<screenVars, formVars, profileVars>>

\* What a fetchWeightAccuracy call writes when its request settles.
WeightAccuracyResult(call, outcome) ==
  IF outcome = "success" THEN Data(call.filter) ELSE Fallback

\* fetchWeightAccuracy after its await, for the call `call` in flight.
WeightAccuracySettle(call, outcome) ==
  /\ call \in waCalls
  /\ weightAccuracy' = WeightAccuracyResult(call, outcome)
  /\ waCalls' = waCalls \ {call}
  /\ waLatest' = IF call.seq = waIssued
                   THEN WeightAccuracyResult(call, outcome)
                   ELSE waLatest
  /\ UNCHANGED <<dashboardData, dashLoading, dashError, waIssued, dmCalls,
                 dmIssued>>
  /\ UNCHANGED <<screenVars, formVars, profileVars>>

\* fetchDashboardMetrics(filters) up to its await; refreshAllData(filters)
\* only forwards to it.
fetchDashboardMetrics(filters) ==
  /\ dmIssued < MaxFetch
  /\ dashLoading' = TRUE
  /\ dashError' = FALSE
  /\ dmIssued' = dmIssued + 1
  /\ dmCalls' = dmCalls \cup {[seq |-> dmIssued + 1, filter |-> filters]}
  /\ UNCHANGED <<dashboardData, weightAccuracy, waCalls, waIssued, waLatest>>
  /\ UNCHANGED <<screenVars, formVars, profileVars>>

\* fetchDashboardMetrics after its await, for the call `call` in flight.
DashboardMetricsSettle(call, outcome) ==
  /\ call \in dmCalls
  /\ IF outcome = "success"
       THEN /\ dashboardData' = Data(call.filter)
            /\ weightAccuracy' = Data(call.filter)
            /\ UNCHANGED dashError
       ELSE /\ dashError' = TRUE
            /\ UNCHANGED <<dashboardData, weightAccuracy>>
  /\ dashLoading' = FALSE
  /\ dmCalls' = dmCalls \ {call}
  /\ UNCHANGED <<waCalls, waIssued, waLatest, dmIssued>>
  /\ UNCHANGED <<screenVars, formVars, profileVars>>

FetchWeightAccuracy == \E f \in Filters : fetchWeightAccuracy(f)
WeightAccuracySettles ==
  \E call \in waCalls, outcome \in Outcomes :
    WeightAccuracySettle(call, outcome)
FetchDashboardMetrics == \E f \in Filters : fetchDashboardMetrics(f)
DashboardMetricsSettles ==
  \E call \in dmCalls, outcome \in Outcomes :
    DashboardMetricsSettle(call, outcome)

\* -------------------------------------------------------- OnboardingForm
\* The OnboardingStep enum: the six steps renderStepContent switches over,
\* numbered in that order (handleNext and handlePrevious add and subtract 1).
\* PERSONAL_INFO is the first of them and WORKOUT_STYLE the last.
PERSONAL_INFO == 0
WORKOUT_STYLE == 5

Steps == PERSONAL_INFO..WORKOUT_STYLE

\* The values of currentStep that are followed.
StepRange == (PERSONAL_INFO - MaxOver)..(WORKOUT_STYLE + MaxOver)

\* validateStep(step, formData).isValid, for the present formData.
validateStep(step) == step \in validSteps

\* OnboardingForm after construction, with the default formData.
FormIdle ==
  /\ currentStep = PERSONAL_INFO
  /\ errors = <<>>
  /\ validSteps = {}
  /\ onSubmitCalls = 0

\* handleChange / handleMultiSelectToggle: formData changes, and the error of
\* the changed field, if there is one, is blanked.
handleChange ==
  /\ \E accepted \in SUBSET StepRange : validSteps' = accepted
  /\ \E blanked \in BOOLEAN : errors' = IF blanked THEN <<>> ELSE errors
  /\ UNCHANGED <<currentStep, onSubmitCalls>>
  /\ UNCHANGED <<screenVars, dashVars, profileVars>>

\* handleNext.  NavigationButtons receives the handler as onNext.
handleNext ==
  /\ currentStep < WORKOUT_STYLE + MaxOver
  /\ IF validateStep(currentStep)
       THEN /\ currentStep' = currentStep + 1
            /\ errors' = <<>>
       ELSE /\ errors' = <<currentStep>>
            /\ UNCHANGED currentStep
  /\ UNCHANGED <<validSteps, onSubmitCalls>>
  /\ UNCHANGED <<screenVars, dashVars, profileVars>>

\* handlePrevious.  NavigationButtons receives the handler as onPrevious.
handlePrevious ==
  /\ currentStep > PERSONAL_INFO - MaxOver
  /\ currentStep' = currentStep - 1
  /\ errors' = <<>>
  /\ UNCHANGED <<validSteps, onSubmitCalls>>
  /\ UNCHANGED <<screenVars, dashVars, profileVars>>

\* handleSubmit.  NavigationButtons receives the handler as onSubmit.
handleSubmit ==
  /\ onSubmitCalls < MaxSubmit
  /\ IF validateStep(currentStep)
       THEN /\ onSubmitCalls' = onSubmitCalls + 1
            /\ UNCHANGED errors
       ELSE /\ errors' = <<currentStep>>
            /\ UNCHANGED onSubmitCalls
  /\ UNCHANGED <<currentStep, validSteps>>
  /\ UNCHANGED <<screenVars, dashVars, profileVars>>

OnboardingNext ==
  handleChange \/ handleNext \/ handlePrevious \/ handleSubmit

\* ----------------------------------------------------- ProfileEditScreen
\* A value of a server profile field: missing, a number, a string or an
\* array of strings.
Missing  == [kind |-> "missing", num |-> 0, str |-> "", arr |-> <<>>]
Num(n)   == [kind |-> "number",  num |-> n, str |-> "", arr |-> <<>>]
Str(s)   == [kind |-> "string",  num |-> 0, str |-> s,  arr |-> <<>>]
Arr(a)   == [kind |-> "array",   num |-> 0, str |-> "", arr |-> a]

\* JavaScript truthiness of such a value: undefined, 0 and "" are falsy, an
\* array (the empty one included) is truthy.
Truthy(v) ==
  CASE v.kind = "missing" -> FALSE
    [] v.kind = "number"  -> v.num # 0
    [] v.kind = "string"  -> v.str # ""
    [] OTHER              -> TRUE

\* String.prototype.toLowerCase on the strings that occur.
toLowerCase(s) ==
  CASE s = "LOW"      -> "low"
    [] s = "High"     -> "high"
    [] s = "Gym"      -> "gym"
    [] s = "HYBRID"   -> "hybrid"
    [] s = "Female"   -> "female"
    [] s = "OTHER"    -> "other"
    [] s = "Advanced" -> "advanced"
    [] s = "Strength" -> "strength"
    [] s = "HIIT"     -> "hiit"
    [] s = "Yoga"     -> "yoga"
    [] OTHER          -> s

\* The enums, as the values of their members in declaration order.
IntensityLevels     == <<"low", "moderate", "high">>
WorkoutEnvironments == <<"home", "gym", "hybrid">>
Gender              == <<"male", "female", "other">>
FitnessLevels       == <<"beginner", "intermediate", "advanced">>
FitnessGoals ==
  <<"weight_loss", "muscle_gain", "strength", "endurance", "flexibility",
    "general_fitness", "mobility", "balance", "recovery">>
PreferredStyles ==
  <<"HIIT", "strength", "cardio", "rehab", "crossfit", "functional",
    "pilates", "yoga", "balance", "mobility">>

Members(enumObj) == {enumObj[i] : i \in 1..Len(enumObj)}

\* The intensity level conversion.
convertIntensityLevel(v) ==
  IF ~Truthy(v) THEN "moderate"
  ELSE IF v.kind = "number"
    THEN (IF v.num = 1 THEN "low" ELSE IF v.num = 2 THEN "moderate" ELSE "high")
    ELSE CASE toLowerCase(v.str) = "low"      -> "low"
           [] toLowerCase(v.str) = "moderate" -> "moderate"
           [] toLowerCase(v.str) = "high"     -> "high"
           [] OTHER                           -> "moderate"

\* The environment conversion: <<e>> for the value e, <<>> for undefined
\* (the first element of an empty array).
convertEnvironment(v) ==
  IF ~Truthy(v) THEN <<"home">>
  ELSE IF v.kind = "array"
    THEN (IF Len(v.arr) > 0 THEN <<v.arr[1]>> ELSE <<>>)
    ELSE CASE toLowerCase(v.str) = "home"   -> <<"home">>
           [] toLowerCase(v.str) = "gym"    -> <<"gym">>
           [] toLowerCase(v.str) = "hybrid" -> <<"hybrid">>
           [] OTHER                         -> <<"home">>

\* The gender conversion.
convertGender(v) ==
  IF ~Truthy(v) THEN "male"
  ELSE CASE toLowerCase(v.str) = "male"   -> "male"
         [] toLowerCase(v.str) = "female" -> "female"
         [] toLowerCase(v.str) = "other"  -> "other"
         [] OTHER                         -> "male"

\* The fitness level conversion.
convertFitnessLevel(v) ==
  IF ~Truthy(v) THEN "beginner"
  ELSE CASE toLowerCase(v.str) = "beginner"     -> "beginner"
         [] toLowerCase(v.str) = "intermediate" -> "intermediate"
         [] toLowerCase(v.str) = "advanced"     -> "advanced"
         [] OTHER                               -> "beginner"

\* Object.keys(enumObj).find(...) of convertStringArrayToEnum: <<member>> for
\* the first member equal to the item up to case, <<>> (null) when none is.
FindEnum(item, enumObj) ==
  LET hits == {i \in 1..Len(enumObj) :
                 toLowerCase(enumObj[i]) = toLowerCase(item)}
  IN IF hits = {} THEN <<>>
     ELSE <<enumObj[CHOOSE i \in hits : \A j \in hits : i <= j]>>

\* convertStringArrayToEnum(arr, enumObj): map, then filter the nulls out.
convertStringArrayToEnum(v, enumObj) ==
  IF ~Truthy(v) THEN <<>>
  ELSE LET mapped == [i \in 1..Len(v.arr) |-> FindEnum(v.arr[i], enumObj)]
           kept   == SelectSeq(mapped, LAMBDA item : item # <<>>)
       IN [i \in 1..Len(kept) |-> kept[i][1]]

convertProfileToFormData(p) ==
  [ gender          |-> convertGender(p.gender),
    goals           |-> convertStringArrayToEnum(p.goals, FitnessGoals),
    fitnessLevel    |-> convertFitnessLevel(p.fitnessLevel),
    environment     |-> convertEnvironment(p.environment),
    preferredStyles |-> convertStringArrayToEnum(p.preferredStyles,
                                                 PreferredStyles),
    intensityLevel  |-> convertIntensityLevel(p.intensityLevel) ]

\* The server profiles that are drawn.
Profiles ==
  [ intensityLevel :
      {Missing, Num(0), Num(1), Num(2), Num(3), Str(""), Str("low"),
       Str("LOW"), Str("High"), Str("extreme")},
    environment :
      {Missing, Str(""), Str("gym"), Str("HYBRID"), Str("garage"), Arr(<<>>),
       Arr(<<"gym">>), Arr(<<"Gym">>), Arr(<<"garage">>),
       Arr(<<"home", "gym">>)},
    gender : {Missing, Str("Female"), Str("OTHER"), Str("unknown")},
    fitnessLevel : {Missing, Str("Advanced"), Str("expert")},
    goals :
      {Missing, Arr(<<>>), Arr(<<"Strength", "bogus">>),
       Arr(<<"bogus", "mobility", "weight_loss">>)},
    preferredStyles :
      {Missing, Arr(<<"hiit">>), Arr(<<"HIIT", "Yoga">>), Arr(<<"zumba">>)} ]

\* ProfileEditScreen after construction: no profile, the form not rendered.
ProfileIdle ==
  /\ profile = <<>>
  /\ initialData = <<>>

\* loadProfile of the mount effect, when fetchUserProfile resolves: setProfile,
\* then the render hands convertProfileToFormData(profile) to OnboardingForm.
loadProfile ==
  /\ profile = <<>>
  /\ \E profileData \in Profiles :
       /\ profile' = <<profileData>>
       /\ initialData' = <<convertProfileToFormData(profileData)>>
  /\ UNCHANGED <<screenVars, dashVars, formVars>>

\* ------------------------------------------------------------- plan data
\* Target rest time of the i-th exercise (1-based) of the plan day.
RestOf(i) == CASE i = 1 -> MaxRest [] i = 2 -> 0 [] OTHER -> 1

\* BlockExercise number i of the plan day: its id and its targets.
PlanExercise(i) == [id |-> 100 + i, restTime |-> RestOf(i), weight |-> 10 * i,
                    duration |-> 0]

\* The blocks of a plan day with n exercises: the first exercise alone in the
\* first block, the others together in a second block.
PlanBlocks(n) ==
  IF n = 1 THEN << [exercises |-> <<PlanExercise(1)>>] >>
  ELSE << [exercises |-> <<PlanExercise(1)>>],
          [exercises |-> [i \in 1..(n - 1) |-> PlanExercise(i + 1)]] >>

RECURSIVE FlatMap(_)
FlatMap(blocks) ==
  IF blocks = <<>> THEN <<>>
  ELSE Head(blocks).exercises \o FlatMap(Tail(blocks))

\* getFlattenedExercises: [] without a workout, else the blocks' exercises.
getFlattenedExercises ==
  IF workout # 0 THEN FlatMap(PlanBlocks(planN)) ELSE <<>>

exercises == getFlattenedExercises

HasCurrentExercise == currentExerciseIndex + 1 \in DOMAIN exercises
HasCurrentProgress == currentExerciseIndex + 1 \in DOMAIN exerciseProgress
currentExercise == exercises[currentExerciseIndex + 1]
currentProgress == exerciseProgress[currentExerciseIndex + 1]

\* Overall workout progress: the cursor plus the number of skipped ids, over
\* the number of exercises, as a percentage (whole percents; the quotient is
\* above 100 exactly when the count is above the number of exercises).
completedAndSkippedCount == currentExerciseIndex + Len(skippedExercises)
progressPercent ==
  IF Len(exercises) > 0
    THEN (completedAndSkippedCount * 100) \div Len(exercises)
    ELSE 0

\* initialProgress of loadWorkout: one record per flattened exercise.
InitialProgress(exs) ==
  [i \in DOMAIN exs |->
     [setsCompleted |-> 0, repsCompleted |-> 0, roundsCompleted |-> 0,
      weightUsed |-> exs[i].weight, sets |-> <<>>,
      duration |-> exs[i].duration, restTime |-> exs[i].restTime,
      notes |-> "", isSkipped |-> FALSE]]

\* Values the set tracker and the notes field hand to updateProgress.
SetLists  == {<<>>, <<[reps |-> 10, weight |-> 10]>>}
NoteTexts == {"", "felt heavy"}

\* --------------------------------------------------------------- effects
\* Variant: the completed flag is not consulted.
SyncContextStartedOnly(started, completed) == started

\* Context sync effect: the flag the screen writes for its started/completed.
SyncContext(started, completed) ==
  IF completed THEN FALSE ELSE IF started THEN TRUE ELSE FALSE

\* Which view the component renders; user input reaches only that view, and a
\* native alert or the rest-complete modal on display takes the input first.
MainView ==
  mounted /\ ~loading /\ ~error /\ workout # 0 /\ ~isWorkoutCompleted
Interactive == MainView /\ alert = "none" /\ ~showRestCompleteModal

\* A remote call issued now resolves or rejects; rejections are budgeted.
CanFail == fails < MaxFail

TypeOK ==
  /\ planN \in 1..MaxRace
  /\ workout \in 0..MaxDays
  /\ mounted \in BOOLEAN
  /\ clockTickers \in Nat /\ restTickers \in Nat
  /\ currentExerciseIndex \in Nat
  /\ workoutTimer \in 0..MaxTime /\ exerciseTimer \in 0..MaxTime
  /\ restTimerCountdown \in Int

\* The screen after construction (useState initial values) with `loads`
\* loadWorkout() calls in flight, when `spent` remote failures are already
\* used up.
ScreenWith(spent, loads) ==
  /\ DashboardIdle
  /\ FormIdle
  /\ ProfileIdle
  /\ fails = spent
  /\ mounted = TRUE
  /\ timerRef = FALSE /\ clockTickers = 0
  /\ restTimerRef = FALSE /\ restTickers = 0
  /\ selectedDate = <<>> /\ refreshRange = <<>>
  /\ loading = TRUE /\ error = FALSE /\ workout = 0
  /\ currentExerciseIndex = 0
  /\ isWorkoutStarted = FALSE /\ isWorkoutCompleted = FALSE
  /\ isPaused = FALSE /\ refreshing = FALSE
  /\ workoutTimer = 0 /\ exerciseTimer = 0
  /\ exerciseProgress = <<>> /\ skippedExercises = <<>>
  /\ showRestCompleteModal = FALSE
  /\ isCompletingExercise = FALSE /\ isSkippingExercise = FALSE
  /\ isRestTimerActive = FALSE /\ isRestTimerPaused = FALSE
  /\ restTimerCountdown = 0
  /\ isWorkoutInProgress = FALSE
  /\ alert = "none"
  /\ cPc = "idle" /\ cIdx = 0 /\ cSets = <<>>
  /\ sPc = "idle" /\ sIdx = 0 /\ sAll = FALSE
  /\ loadsPlain = loads /\ loadsForce = 0
  /\ markCalls = 0 /\ clockTicks = 0 /\ abandoned = FALSE
  /\ exerciseLogs = [i \in 1..planN |-> 0]
  /\ restStart = 0 /\ restTicks = 0 /\ restFor = 0

\* The screen mounted out of focus: the mount effect's loadWorkout() is in
\* flight.
ScreenMounted(spent) == ScreenWith(spent, 1)

\* The screen mounted at midday UTC of the plan's day, the response holding
\* the one plan day of that date.
Mounted(spent) ==
  /\ planN \in 1..MaxExercises
  /\ planDays \in TodayPlans
  /\ now = Midday /\ tzOffset = 0
  /\ ScreenMounted(spent)

Init == Mounted(0)

\* ------------------------------------------------------------- calendar
\* The calendar screen mounts: useState(new Date().toISOString().split("T")[0])
\* is the selected date.  The workout screen is not touched.
CalendarMount ==
  /\ selectedDate = <<>>
  /\ selectedDate' = <<toISODate(now)>>
  /\ UNCHANGED <<coreVars, clockVars, restVars, progVars, compVars, skipVars,
                 loadVars, envVars, lifeVars, hookVars, alert>>

\* ---------------------------------------------------------- timer effects
\* Variant: the interval is not torn down on pause.
ClockRunningWhilePaused == isWorkoutStarted /\ ~isWorkoutCompleted

\* The condition under which the timer effect makes an interval.
ClockRunning == isWorkoutStarted /\ ~isPaused /\ ~isWorkoutCompleted

\* Variant: no rest interval while the workout is paused.
RestRunningUnlessPaused ==
  isRestTimerActive /\ ~isRestTimerPaused /\ restTimerCountdown > 0 /\ ~isPaused

\* The condition under which the rest timer effect makes an interval.
RestRunning ==
  isRestTimerActive /\ ~isRestTimerPaused /\ restTimerCountdown > 0

\* A variant of clearInterval that leaves the ticker running.
clearIntervalForgotten(ref, tickers) == tickers

\* clearInterval(ref.current) under "if (ref.current)": the ticker the ref
\* holds stops; tickers is the number of live tickers of that kind.
clearInterval(ref, tickers) == IF ref THEN tickers - 1 ELSE tickers

\* The timer effect after a render in which one of its dependencies changed:
\* the cleanup of the previous run clears the interval timerRef holds, then
\* the body makes a new interval or clears the one timerRef holds.
TimerEffect ==
  IF <<isWorkoutStarted, isPaused, isWorkoutCompleted>>' =
     <<isWorkoutStarted, isPaused, isWorkoutCompleted>>
    THEN UNCHANGED <<timerRef, clockTickers>>
    ELSE LET cleared == clearInterval(timerRef, clockTickers)
         IN IF ClockRunning'
              THEN timerRef' = TRUE /\ clockTickers' = cleared + 1
              ELSE timerRef' = FALSE /\ clockTickers' = cleared

\* The rest timer effect, in the same way; the finishing callback and the
\* abandonment effect clear the interval restTimerRef holds themselves, which
\* the cleanup then finds cleared.
RestTimerEffect ==
  IF <<isRestTimerActive, isRestTimerPaused, restTimerCountdown>>' =
     <<isRestTimerActive, isRestTimerPaused, restTimerCountdown>>
    THEN UNCHANGED <<restTimerRef, restTickers>>
    ELSE LET cleared == clearInterval(restTimerRef, restTickers)
         IN IF RestRunning'
              THEN restTimerRef' = TRUE /\ restTickers' = cleared + 1
              ELSE restTimerRef' = FALSE /\ restTickers' = cleared

\* What follows the state updates of every handler of the mounted screen:
\* the render runs the two timer effects; the calendar screen, the
\* dashboard hook, the onboarding form and the profile screen are not touched.
RunEffects ==
  /\ TimerEffect
  /\ RestTimerEffect
  /\ UNCHANGED <<mounted, calVars, hookVars>>

\* Unmount: the cleanups of the effects clear the intervals the refs hold and
\* clear the context flag.  Nothing of the screen runs afterwards.
Unmount ==
  /\ mounted
  /\ mounted' = FALSE
  /\ clockTickers' = clearInterval(timerRef, clockTickers)
  /\ timerRef' = FALSE
  /\ restTickers' = clearInterval(restTimerRef, restTickers)
  /\ restTimerRef' = FALSE
  /\ isWorkoutInProgress' = FALSE
  /\ UNCHANGED <<loading, error, workout, currentExerciseIndex,
                 isWorkoutStarted, isWorkoutCompleted, isPaused, refreshing,
                 clockVars, restVars, progVars, compVars, skipVars, loadVars,
                 envVars, calVars, hookVars, alert>>

\* ------------------------------------------------------------ loadWorkout
\* loadWorkout up to its await: loadWorkout(false) shows the skeleton.
LoadBegin(forceRefresh) ==
  /\ loading' = (IF forceRefresh THEN loading ELSE TRUE)
  /\ error' = FALSE
  /\ IF forceRefresh
       THEN loadsForce' = loadsForce + 1 /\ UNCHANGED loadsPlain
       ELSE loadsPlain' = loadsPlain + 1 /\ UNCHANGED loadsForce

\* Pull to refresh on the main view: onRefresh.
OnRefresh ==
  /\ mounted
  /\ Interactive /\ loadsPlain + loadsForce < MaxLoads
  /\ refreshing' = TRUE
  /\ LoadBegin(TRUE)
  /\ UNCHANGED <<workout, currentExerciseIndex, isWorkoutStarted,
                 isWorkoutCompleted, isPaused, isWorkoutInProgress,
                 clockVars, restVars, progVars, compVars, skipVars, envVars,
                 alert>>
  /\ RunEffects

\* "Try Again" of the error view: loadWorkout(true).
TryAgain ==
  /\ mounted
  /\ ~loading /\ error /\ alert = "none" /\ loadsPlain + loadsForce < MaxLoads
  /\ LoadBegin(TRUE)
  /\ UNCHANGED <<workout, currentExerciseIndex, isWorkoutStarted,
                 isWorkoutCompleted, isPaused, refreshing, isWorkoutInProgress,
                 clockVars, restVars, progVars, compVars, skipVars, envVars,
                 alert>>
  /\ RunEffects

\* loadWorkout(false): the tab gains focus (tabs are open only while no
\* workout is in progress), or "Refresh" of the no-workout view.
FocusLoad ==
  /\ mounted
  /\ ~isWorkoutInProgress /\ loadsPlain + loadsForce < MaxLoads
  /\ LoadBegin(FALSE)
  /\ UNCHANGED <<workout, currentExerciseIndex, isWorkoutStarted,
                 isWorkoutCompleted, isPaused, refreshing, isWorkoutInProgress,
                 clockVars, restVars, progVars, compVars, skipVars, envVars,
                 alert>>
  /\ RunEffects

\* loadWorkout after fetchActiveWorkout settles.  ok = FALSE is the catch.
LoadSettle(forceRefresh, ok) ==
  /\ mounted
  /\ IF forceRefresh
       THEN loadsForce > 0 /\ loadsForce' = loadsForce - 1
            /\ UNCHANGED loadsPlain
       ELSE loadsPlain > 0 /\ loadsPlain' = loadsPlain - 1
            /\ UNCHANGED loadsForce
  /\ IF ~ok
       THEN /\ CanFail /\ fails' = fails + 1
            /\ error' = TRUE
            /\ UNCHANGED <<workout, isWorkoutCompleted, isWorkoutInProgress,
                           exerciseProgress>>
       ELSE /\ UNCHANGED <<fails, error>>
            /\ LET today == getCurrentDate
                   todaysWorkout == FindToday(planDays, today)
               IN /\ workout' = todaysWorkout
                  /\ IF todaysWorkout = 0
                       THEN UNCHANGED <<isWorkoutCompleted,
                                        isWorkoutInProgress, exerciseProgress>>
                       ELSE IF planDays[todaysWorkout].isComplete
                         THEN /\ isWorkoutCompleted' = TRUE
                              /\ isWorkoutInProgress' = FALSE
                              /\ UNCHANGED exerciseProgress
                         ELSE /\ exerciseProgress' =
                                   InitialProgress(FlatMap(PlanBlocks(planN)))
                              /\ UNCHANGED <<isWorkoutCompleted,
                                             isWorkoutInProgress>>
  /\ loading' = FALSE
  /\ refreshing' = (IF forceRefresh THEN FALSE ELSE refreshing)
  /\ UNCHANGED <<currentExerciseIndex, isWorkoutStarted, isPaused, clockVars,
                 restVars, skippedExercises, compVars, skipVars, fixedVars,
                 planDays, abandoned, refreshRange, markCalls, exerciseLogs, alert>>
  /\ RunEffects

LoadWorkoutDone == \E f \in BOOLEAN, ok \in BOOLEAN : LoadSettle(f, ok)

\* ------------------------------------------------- start, pause and clock
startWorkout ==
  /\ mounted
  /\ Interactive /\ ~isWorkoutStarted
  /\ isWorkoutStarted' = TRUE
  /\ workoutTimer' = 0 /\ exerciseTimer' = 0 /\ clockTicks' = 0
  /\ isWorkoutInProgress' = TRUE
  /\ UNCHANGED <<loading, error, workout, currentExerciseIndex,
                 isWorkoutCompleted, isPaused, refreshing, restVars, progVars,
                 compVars, skipVars, loadVars, envVars, alert>>
  /\ RunEffects

togglePause ==
  /\ mounted
  /\ Interactive /\ isWorkoutStarted
  /\ isPaused' = ~isPaused
  /\ UNCHANGED <<loading, error, workout, currentExerciseIndex,
                 isWorkoutStarted, isWorkoutCompleted, refreshing,
                 isWorkoutInProgress, clockVars, restVars, progVars, compVars,
                 skipVars, loadVars, envVars, alert>>
  /\ RunEffects

\* One firing of a live workout interval.
Tick ==
  /\ mounted
  /\ clockTickers > 0 /\ workoutTimer < MaxTime
  /\ workoutTimer' = workoutTimer + 1
  /\ exerciseTimer' = exerciseTimer + 1
  /\ clockTicks' = clockTicks + 1
  /\ UNCHANGED <<coreVars, restVars, progVars, compVars, skipVars, loadVars,
                 envVars, alert>>
  /\ RunEffects

\* The per-exercise panel (set tracker, notes, rest timer) is rendered.
ExercisePanel ==
  Interactive /\ isWorkoutStarted /\ HasCurrentExercise /\ HasCurrentProgress

updateProgress(field, value) ==
  /\ mounted
  /\ ExercisePanel
  /\ exerciseProgress' =
       [exerciseProgress EXCEPT ![currentExerciseIndex + 1][field] = value]
  /\ UNCHANGED <<coreVars, clockVars, restVars, skippedExercises, compVars,
                 skipVars, loadVars, envVars, alert>>
  /\ RunEffects

UpdateSets  == \E v \in SetLists  : updateProgress("sets", v)
UpdateNotes == \E v \in NoteTexts : updateProgress("notes", v)

\* --------------------------------------------------------------- rest timer
RestPanel == ExercisePanel /\ currentExercise.restTime > 0

\* Variant: the rest time is not checked.
RestStartsUnchecked(restTime) == TRUE

\* "if (restTime > 0)" of startRestTimer.
RestStarts(restTime) == restTime > 0

\* startRestTimer on the current exercise.  The panel shows its button on an
\* exercise with a rest time; the handler checks the rest time itself and
\* does nothing on an exercise without one.
startRestTimer ==
  /\ mounted
  /\ ExercisePanel /\ ~isRestTimerActive
  /\ LET restTime == currentExercise.restTime IN
       IF RestStarts(restTime)
         THEN /\ restTimerCountdown' = restTime
              /\ isRestTimerActive' = TRUE
              /\ isRestTimerPaused' = FALSE
              /\ restStart' = restTime /\ restTicks' = 0
              /\ restFor' = currentExerciseIndex
         ELSE UNCHANGED <<isRestTimerActive, isRestTimerPaused,
                          restTimerCountdown, restStart, restTicks, restFor>>
  /\ UNCHANGED <<coreVars, clockVars, showRestCompleteModal, progVars,
                 compVars, skipVars, loadVars, envVars, alert>>
  /\ RunEffects

toggleRestTimerPause ==
  /\ mounted
  /\ RestPanel /\ isRestTimerActive
  /\ isRestTimerPaused' = ~isRestTimerPaused
  /\ UNCHANGED <<coreVars, clockVars, isRestTimerActive, restTimerCountdown,
                 showRestCompleteModal, restStart, restTicks, restFor,
                 progVars, compVars, skipVars, loadVars, envVars, alert>>
  /\ RunEffects

resetRestTimer ==
  /\ mounted
  /\ RestPanel /\ isRestTimerActive
  /\ LET restTime == currentExercise.restTime IN
       /\ restTimerCountdown' = restTime
       /\ restStart' = restTime /\ restTicks' = 0
       /\ restFor' = currentExerciseIndex
  /\ isRestTimerPaused' = FALSE
  /\ UNCHANGED <<coreVars, clockVars, isRestTimerActive,
                 showRestCompleteModal, progVars, compVars, skipVars,
                 loadVars, envVars, alert>>
  /\ RunEffects

cancelRestTimer ==
  /\ mounted
  /\ RestPanel /\ isRestTimerActive
  /\ isRestTimerActive' = FALSE
  /\ isRestTimerPaused' = FALSE
  /\ restTimerCountdown' = 0
  /\ restStart' = 0 /\ restTicks' = 0 /\ restFor' = 0
  /\ UNCHANGED <<coreVars, clockVars, showRestCompleteModal, progVars,
                 compVars, skipVars, loadVars, envVars, alert>>
  /\ RunEffects

\* Variant: the countdown ends one second early.
RestFinishedEarly(prev) == prev <= 2

\* "if (prev <= 1)" of the rest interval: this firing ends the countdown.
RestFinished(prev) == prev <= 1

\* One firing of a live rest interval.
RestTick ==
  /\ mounted
  /\ restTickers > 0
  /\ IF RestFinished(restTimerCountdown)
       THEN /\ isRestTimerActive' = FALSE
            /\ isRestTimerPaused' = FALSE
            /\ showRestCompleteModal' = TRUE
            /\ restTimerCountdown' = 0
       ELSE /\ restTimerCountdown' = restTimerCountdown - 1
            /\ UNCHANGED <<isRestTimerActive, isRestTimerPaused,
                           showRestCompleteModal>>
  /\ restTicks' = restTicks + 1
  /\ UNCHANGED <<coreVars, clockVars, restStart, restFor, progVars, compVars,
                 skipVars, loadVars, envVars, alert>>
  /\ RunEffects

\* Either button of the rest-complete modal closes it.
DismissRestComplete ==
  /\ mounted
  /\ MainView /\ alert = "none" /\ showRestCompleteModal
  /\ showRestCompleteModal' = FALSE
  /\ UNCHANGED <<coreVars, clockVars, isRestTimerActive, isRestTimerPaused,
                 restTimerCountdown, restStart, restTicks, restFor, progVars,
                 compVars, skipVars, loadVars, envVars, alert>>
  /\ RunEffects

\* "OK" of a native alert.
DismissAlert ==
  /\ mounted
  /\ alert # "none"
  /\ alert' = "none"
  /\ UNCHANGED <<coreVars, clockVars, restVars, progVars, compVars, skipVars,
                 loadVars, envVars>>
  /\ RunEffects

\* -------------------------------------------------------------- abandonment
\* Variant: the abandonment effect leaves the exercise timer alone.
AbandonedExerciseTimerKept(prev) == prev

\* setExerciseTimer(0) of the abandonment effect.
AbandonedExerciseTimer(prev) == 0

\* The navigation shell clears the context flag of a running workout and the
\* abandonment effect resets the session; the sync effect then finds the
\* flag already false.
AbandonWorkout ==
  /\ mounted
  /\ isWorkoutInProgress /\ isWorkoutStarted /\ ~isWorkoutCompleted
  /\ isWorkoutInProgress' = SyncContext(FALSE, isWorkoutCompleted)
  /\ isWorkoutStarted' = FALSE
  /\ isPaused' = FALSE
  /\ workoutTimer' = 0 /\ clockTicks' = 0
  /\ exerciseTimer' = AbandonedExerciseTimer(exerciseTimer)
  /\ currentExerciseIndex' = 0
  /\ isRestTimerActive' = FALSE
  /\ isRestTimerPaused' = FALSE
  /\ restTimerCountdown' = 0
  /\ restStart' = 0 /\ restTicks' = 0 /\ restFor' = 0
  /\ abandoned' = TRUE
  /\ UNCHANGED <<loading, error, workout, isWorkoutCompleted, refreshing,
                 showRestCompleteModal, progVars, compVars, skipVars,
                 loadVars, fixedVars, planDays, fails, markCalls, exerciseLogs,
                 refreshRange, alert>>
  /\ RunEffects

\* ---------------------------------------------------------- completeExercise
\* Variants of the operators below, each with one line of the handler changed.
HasNextExerciseOffByOne(index, count) == index < count
AdvanceIndexFromClosure(prev, captured) == captured + 1
DoneIndexStaysOnLast(count) == count - 1
NoSetsLoggedUnchecked(sets) == FALSE

\* "if (currentExerciseIndex < exercises.length - 1)" of both handlers, on
\* the index and the exercise list of the closure.
HasNextExercise(index, count) == index < count - 1

\* setCurrentExerciseIndex((prev) => prev + 1): the live index moves on; the
\* closure's own index is not consulted.
AdvanceIndex(prev, captured) == prev + 1

\* setCurrentExerciseIndex(exercises.length) of a finished day.
DoneIndex(count) == count

\* The validation of completeExercise: no set list, or an empty one.
NoSetsLogged(sets) == sets = <<>>

\* The early return of completeExercise does not fire.
completeExerciseRuns == HasCurrentExercise /\ HasCurrentProgress

\* The next position of a handler that issues a remote call now.
Issued(pc, okPc, failPc) ==
  \/ pc = okPc /\ fails' = fails
  \/ CanFail /\ pc = failPc /\ fails' = fails + 1

\* The server's exercise logs after createExerciseLog succeeded for the
\* exercise at position index (from 0).
Logged(logs, index) ==
  [logs EXCEPT ![index + 1] = IF @ < MaxCalls THEN @ + 1 ELSE @]

\* One more markPlanDayAsComplete call on the wire.
MarkIssued == markCalls' = IF markCalls < MaxCalls THEN markCalls + 1
                           ELSE markCalls

\* finally of completeExercise; the closure is dropped with the call.
CompleteFinally ==
  /\ isCompletingExercise' = FALSE
  /\ cPc' = "idle" /\ cIdx' = 0 /\ cSets' = <<>>

\* Variant: the failure is swallowed, no alert is raised.
CompleteCatchSilent ==
  /\ alert' = alert
  /\ CompleteFinally

\* catch + finally of completeExercise.
CompleteCatch ==
  /\ alert' = "Error"
  /\ CompleteFinally

\* Confirm button of the complete modal: completeExercise up to
\* await getCurrentUser().
CompleteStart ==
  /\ mounted
  /\ Interactive /\ isWorkoutStarted /\ ~isCompletingExercise
  /\ completeExerciseRuns
  /\ isCompletingExercise' = TRUE
  /\ cIdx' = currentExerciseIndex
  /\ cSets' = currentProgress.sets
  /\ Issued(cPc', "userOk", "userNone")
  /\ UNCHANGED <<coreVars, clockVars, restVars, progVars, skipVars, loadVars,
                 fixedVars, planDays, abandoned, markCalls, exerciseLogs,
                 refreshRange, alert>>
  /\ RunEffects

\* From getCurrentUser to createExerciseLog: authentication, then validation.
CompleteValidate ==
  /\ mounted
  /\ cPc \in {"userOk", "userNone"}
  /\ IF cPc = "userNone"
       THEN CompleteCatch /\ UNCHANGED fails
       ELSE IF NoSetsLogged(cSets)
         THEN /\ alert' = "No Sets Logged"
              /\ CompleteFinally
              /\ UNCHANGED fails
         ELSE /\ Issued(cPc', "logOk", "logFail")
              /\ UNCHANGED <<alert, isCompletingExercise, cIdx, cSets>>
  /\ UNCHANGED <<coreVars, clockVars, restVars, progVars, skipVars, loadVars,
                 fixedVars, planDays, abandoned, markCalls, exerciseLogs,
                 refreshRange>>
  /\ RunEffects

\* After createExerciseLog: next exercise, or mark the plan day complete.
CompleteAdvance ==
  /\ mounted
  /\ cPc \in {"logOk", "logFail"}
  /\ exerciseLogs' = IF cPc = "logOk" THEN Logged(exerciseLogs, cIdx)
                                      ELSE exerciseLogs
  /\ IF cPc = "logFail"
       THEN /\ CompleteCatch
            /\ UNCHANGED <<fails, currentExerciseIndex, exerciseTimer,
                           markCalls>>
       ELSE IF HasNextExercise(cIdx, planN)
         THEN /\ currentExerciseIndex' =
                   AdvanceIndex(currentExerciseIndex, cIdx)
              /\ exerciseTimer' = 0
              /\ CompleteFinally
              /\ UNCHANGED <<fails, markCalls, alert>>
         ELSE /\ Issued(cPc', "markOk", "markFail")
              /\ MarkIssued
              /\ UNCHANGED <<currentExerciseIndex, exerciseTimer, alert,
                             isCompletingExercise, cIdx, cSets>>
  /\ UNCHANGED <<loading, error, workout, isWorkoutStarted,
                 isWorkoutCompleted, isPaused, refreshing,
                 isWorkoutInProgress, workoutTimer, clockTicks, restVars,
                 progVars, skipVars, loadVars, fixedVars, planDays,
                 abandoned, refreshRange>>
  /\ RunEffects

\* After markPlanDayAsComplete: refresh the dashboard.
CompleteMarked ==
  /\ mounted
  /\ cPc \in {"markOk", "markFail"}
  /\ IF cPc = "markFail"
       THEN CompleteCatch /\ UNCHANGED <<fails, planDays, refreshRange>>
       ELSE /\ planDays' = MarkedComplete(planDays, workout)
            /\ refreshRange' =
                 <<[startDate |-> toISODate(setDate(now, 0 - HistoryDays)),
                    endDate |-> toISODate(setDate(now, AheadDays))]>>
            /\ Issued(cPc', "refreshOk", "refreshFail")
            /\ UNCHANGED <<alert, isCompletingExercise, cIdx, cSets>>
  /\ UNCHANGED <<coreVars, clockVars, restVars, progVars, skipVars, loadVars,
                 fixedVars, abandoned, markCalls, exerciseLogs>>
  /\ RunEffects

\* After refreshDashboard: the day is complete.
CompleteFinish ==
  /\ mounted
  /\ cPc \in {"refreshOk", "refreshFail"}
  /\ IF cPc = "refreshFail"
       THEN /\ CompleteCatch
            /\ UNCHANGED <<currentExerciseIndex, isWorkoutCompleted,
                           isWorkoutInProgress>>
       ELSE /\ currentExerciseIndex' = DoneIndex(planN)
            /\ isWorkoutCompleted' = TRUE
            /\ isWorkoutInProgress' = SyncContext(isWorkoutStarted, TRUE)
            /\ alert' = "Workout Complete!"
            /\ CompleteFinally
  /\ UNCHANGED <<loading, error, workout, isWorkoutStarted, isPaused,
                 refreshing, clockVars, restVars, progVars, skipVars,
                 loadVars, envVars>>
  /\ RunEffects

\* ------------------------------------------------------ skipCurrentExercise
\* The early return of skipCurrentExercise does not fire.
skipCurrentExerciseRuns == HasCurrentExercise /\ workout # 0

\* allProcessed as the closure computes it from the render it was created in.
AllProcessed(exs, index, skipped) ==
  \A i \in DOMAIN exs :
    \/ i - 1 < index
    \/ \E k \in DOMAIN skipped : skipped[k] = exs[i].id
    \/ i - 1 = index

\* Variant: the progress record is not marked.
MarkSkippedNowhere(prev, index) == prev

\* updated[index] = {...updated[index], isSkipped: true}
MarkSkipped(prev, index) ==
  IF index + 1 \in DOMAIN prev
    THEN [prev EXCEPT ![index + 1].isSkipped = TRUE]
    ELSE prev

\* finally of skipCurrentExercise; the closure is dropped with the call.
SkipFinally ==
  /\ isSkippingExercise' = FALSE
  /\ sPc' = "idle" /\ sIdx' = 0 /\ sAll' = FALSE

\* catch + finally of skipCurrentExercise.
SkipCatch ==
  /\ alert' = "Error"
  /\ SkipFinally

\* Confirm button of the skip modal: skipCurrentExercise up to
\* await skipExercise().
SkipStart ==
  /\ mounted
  /\ Interactive /\ isWorkoutStarted /\ ~isSkippingExercise
  /\ skipCurrentExerciseRuns
  /\ Len(skippedExercises) < MaxExercises
  /\ isSkippingExercise' = TRUE
  /\ sIdx' = currentExerciseIndex
  /\ sAll' = AllProcessed(exercises, currentExerciseIndex, skippedExercises)
  /\ Issued(sPc', "skipOk", "skipFail")
  /\ UNCHANGED <<coreVars, clockVars, restVars, progVars, compVars, loadVars,
                 fixedVars, planDays, abandoned, markCalls, exerciseLogs,
                 refreshRange, alert>>
  /\ RunEffects

\* After skipExercise: record the skip, then next exercise or mark the day.
SkipAdvance ==
  /\ mounted
  /\ sPc \in {"skipOk", "skipFail"}
  /\ UNCHANGED exerciseLogs
  /\ IF sPc = "skipFail"
       THEN /\ SkipCatch
            /\ UNCHANGED <<fails, progVars, currentExerciseIndex,
                           exerciseTimer, markCalls>>
       ELSE /\ skippedExercises' =
                 Append(skippedExercises, PlanExercise(sIdx + 1).id)
            /\ exerciseProgress' = MarkSkipped(exerciseProgress, sIdx)
            /\ IF HasNextExercise(sIdx, planN)
                 THEN /\ currentExerciseIndex' =
                           AdvanceIndex(currentExerciseIndex, sIdx)
                      /\ exerciseTimer' = 0
                      /\ SkipFinally
                      /\ UNCHANGED <<fails, markCalls, alert>>
                 ELSE IF sAll
                   THEN /\ Issued(sPc', "markOk", "markFail")
                        /\ MarkIssued
                        /\ UNCHANGED <<currentExerciseIndex, exerciseTimer,
                                       alert, isSkippingExercise, sIdx, sAll>>
                   ELSE /\ SkipFinally
                        /\ UNCHANGED <<fails, markCalls, alert,
                                       currentExerciseIndex, exerciseTimer>>
  /\ UNCHANGED <<loading, error, workout, isWorkoutStarted,
                 isWorkoutCompleted, isPaused, refreshing,
                 isWorkoutInProgress, workoutTimer, clockTicks, restVars,
                 compVars, loadVars, fixedVars, planDays,
                 abandoned, refreshRange>>
  /\ RunEffects

\* After markPlanDayAsComplete: the day is complete.
SkipFinish ==
  /\ mounted
  /\ sPc \in {"markOk", "markFail"}
  /\ IF sPc = "markFail"
       THEN /\ SkipCatch
            /\ UNCHANGED <<planDays, currentExerciseIndex,
                           isWorkoutCompleted, isWorkoutInProgress>>
       ELSE /\ planDays' = MarkedComplete(planDays, workout)
            /\ currentExerciseIndex' = DoneIndex(planN)
            /\ isWorkoutCompleted' = TRUE
            /\ isWorkoutInProgress' = SyncContext(isWorkoutStarted, TRUE)
            /\ alert' = "Workout Complete!"
            /\ SkipFinally
  /\ UNCHANGED <<loading, error, workout, isWorkoutStarted, isPaused,
                 refreshing, clockVars, restVars, progVars, compVars,
                 loadVars, fixedVars, abandoned, fails, markCalls, exerciseLogs,
                 refreshRange>>
  /\ RunEffects

\* ------------------------------------------------------------ exercise list
\* The three flags the exercise list derives for the exercise at position i
\* (globalIndex, from 0) of the flattened plan day.
isCompleted(i) == i < currentExerciseIndex
isCurrent(i) == i = currentExerciseIndex
isSkipped(i) ==
  \E k \in DOMAIN skippedExercises :
    skippedExercises[k] = PlanExercise(i + 1).id

\* ------------------------------------------------------------ specification
\* Loading, starting, logging, completing, skipping and abandoning.
SessionStep ==
  \/ OnRefresh
  \/ TryAgain
  \/ FocusLoad
  \/ LoadWorkoutDone
  \/ startWorkout
  \/ UpdateSets
  \/ UpdateNotes
  \/ DismissAlert
  \/ AbandonWorkout
  \/ CompleteStart
  \/ CompleteValidate
  \/ CompleteAdvance
  \/ CompleteMarked
  \/ CompleteFinish
  \/ SkipStart
  \/ SkipAdvance
  \/ SkipFinish

\* The workout clock and the rest timer, up to the unmount of the screen.
TimerStep ==
  \/ togglePause
  \/ Tick
  \/ startRestTimer
  \/ toggleRestTimerPause
  \/ resetRestTimer
  \/ cancelRestTimer
  \/ RestTick
  \/ DismissRestComplete
  \/ Unmount

\* The session around the timers: what starts, moves and ends a workout.
TimerContext ==
  \/ LoadWorkoutDone
  \/ startWorkout
  \/ UpdateSets
  \/ DismissAlert
  \/ AbandonWorkout
  \/ CompleteStart
  \/ CompleteValidate
  \/ CompleteAdvance
  \/ CompleteMarked
  \/ CompleteFinish
  \/ SkipStart
  \/ SkipAdvance
  \/ SkipFinish

DashboardStep ==
  \/ FetchWeightAccuracy
  \/ WeightAccuracySettles
  \/ FetchDashboardMetrics
  \/ DashboardMetricsSettles

Next ==
  \/ SessionStep \/ TimerStep \/ CalendarMount \/ DashboardStep
  \/ OnboardingNext \/ loadProfile

\* Every behaviour of the screen.
Spec == Init /\ [][Next]_vars

\* The session with the clock stopped and no rest timer: every remote call
\* may fail (up to MaxFail failures), loads may come at any time.
SpecSession == Init /\ [][SessionStep]_vars

\* The timers on a session whose remote calls all succeed and whose plan day
\* is loaded once.
InitTimers ==
  /\ Mounted(MaxFail)
  /\ ~serverComplete

SpecTimers == InitTimers /\ [][TimerStep \/ TimerContext]_vars

\* Overlapping complete and skip calls on a plan day of MaxRace exercises,
\* every remote call succeeding.
InitRace ==
  /\ planN = MaxRace
  /\ planDays = <<PlanDay(Midnight(PlanDate), FALSE)>>
  /\ now = Midday /\ tzOffset = 0
  /\ ScreenMounted(MaxFail)

SpecRace == InitRace /\ [][TimerContext]_vars

\* Loading: any response of up to MaxDays plan days; the screen is mounted
\* out of focus (the mount effect's loadWorkout() in flight) or in focus (the
\* focus effect's loadWorkout(false) in flight as well); the day is worked
\* through by skipping; every remote call may fail.
InitLoad ==
  /\ planN \in 1..MaxExercises
  /\ planDays \in AnyPlans
  /\ now = Midday /\ tzOffset = 0
  /\ \E loads \in {1, 2} : ScreenWith(0, loads)

LoadStep ==
  \/ OnRefresh
  \/ TryAgain
  \/ FocusLoad
  \/ LoadWorkoutDone
  \/ startWorkout
  \/ UpdateSets
  \/ DismissAlert
  \/ SkipStart
  \/ SkipAdvance
  \/ SkipFinish

SpecLoad == InitLoad /\ [][LoadStep]_vars

\* The session with the workout clock ticking: every remote call may fail
\* (up to MaxFail failures), the plan day is loaded once.
InitClock ==
  /\ Mounted(0)
  /\ ~serverComplete

SpecClock == InitClock /\ [][Tick \/ TimerContext]_vars

\* The session and the calendar screen at any of the instants and time zone
\* offsets, on a response with one plan day, every remote call succeeding.
InitDates ==
  /\ planN = 1
  /\ planDays \in {<<day>> : day \in AnyPlanDay}
  /\ now \in Instants
  /\ tzOffset \in Offsets
  /\ ScreenMounted(MaxFail)

SpecDates == InitDates /\ [][CalendarMount \/ TimerContext]_vars

\* useDashboard alone, next to a workout screen that stays as mounted:
\* overlapping fetchWeightAccuracy calls, and overlapping
\* fetchDashboardMetrics calls.
InitDashboard ==
  /\ planN = 1
  /\ planDays = <<PlanDay(Midnight(PlanDate), FALSE)>>
  /\ now = Midday /\ tzOffset = 0
  /\ ScreenMounted(0)

SpecWeightAccuracy ==
  InitDashboard /\ [][FetchWeightAccuracy \/ WeightAccuracySettles]_vars

SpecDashboard ==
  InitDashboard /\ [][FetchDashboardMetrics \/ DashboardMetricsSettles]_vars

\* OnboardingForm alone: its handlers in any order, with any formData.
SpecOnboarding == InitDashboard /\ [][OnboardingNext]_vars

\* ProfileEditScreen alone: the profile the server sends is converted.
SpecProfile == InitDashboard /\ [][loadProfile]_vars

\* ================================================================== claims
\* C1: in every reachable state the exercise cursor lies between 0 and the
\* number of exercises of the flattened plan day.
C1_CursorWithinPlan ==
  /\ 0 <= currentExerciseIndex
  /\ currentExerciseIndex <= Len(exercises)

\* C2 as stated: the exercise cursor never decreases from one step to the
\* next, the abandonment reset included.
C2_CursorNeverDecreases ==
  [][currentExerciseIndex' >= currentExerciseIndex]_vars

\* The abandonment reset is the only step that turns isWorkoutStarted off.
AbandonStep == isWorkoutStarted /\ ~isWorkoutStarted'

\* C2: in every step other than the abandonment reset the exercise cursor
\* keeps its value or grows; the abandonment reset sets it to 0.
C2_CursorDecreasesOnlyOnAbandon ==
  [][IF AbandonStep
       THEN currentExerciseIndex' = 0
       ELSE currentExerciseIndex' >= currentExerciseIndex]_vars

\* C2 witness: on a two-exercise day an exercise was skipped (the cursor had
\* moved on) and the session was then abandoned, the cursor back at 0.
C2_Witness ==
  /\ planN = 2
  /\ ~isWorkoutStarted
  /\ currentExerciseIndex = 0
  /\ skippedExercises # <<>>
  /\ sPc = "idle"

\* The step of completeExercise that follows getCurrentUser, for a call
\* made with an empty set list.
ValidateEmptyStep ==
  /\ cPc \in {"userOk", "userNone"}
  /\ cSets = <<>>
  /\ cPc' # cPc

\* The call ends at this step: no createExerciseLog and no mark-day-complete
\* request is issued, cursor and day state stay as they are.
AbortsUntouched ==
  /\ cPc' = "idle"
  /\ markCalls' = markCalls
  /\ serverComplete' = serverComplete
  /\ currentExerciseIndex' = currentExerciseIndex
  /\ isWorkoutCompleted' = isWorkoutCompleted

\* C3 as stated: completeExercise called with an empty set list always
\* reports 'No Sets Logged', issues no createExerciseLog and no
\* mark-day-complete call and leaves cursor and day state unchanged.
C3_EmptySetsAlwaysNoSetsLogged ==
  [][ValidateEmptyStep => alert' = "No Sets Logged" /\ AbortsUntouched]_vars

\* C3: completeExercise called with an empty set list issues no
\* createExerciseLog and no mark-day-complete call and leaves cursor and day
\* state unchanged; it reports 'No Sets Logged' when getCurrentUser yields a
\* user and the generic error when it does not.
C3_EmptySetsAbort ==
  [][ValidateEmptyStep =>
       /\ AbortsUntouched
       /\ alert' = IF cPc = "userOk" THEN "No Sets Logged" ELSE "Error"]_vars

\* C3 witness: the validation failure is on screen, the handler has ended
\* and nothing was sent.
C3_Witness ==
  /\ alert = "No Sets Logged"
  /\ cPc = "idle"
  /\ ~isCompletingExercise
  /\ markCalls = 0
  /\ isWorkoutStarted

\* Both handlers return at their first line.
HandlersReturnEarly == ~completeExerciseRuns /\ ~skipCurrentExerciseRuns

\* The last step of a complete or skip call that succeeded on the last
\* exercise.
LastExerciseSucceeds ==
  \/ cPc = "refreshOk" /\ cPc' = "idle"
  \/ sPc = "markOk" /\ sPc' = "idle"

\* C4: a complete or skip that succeeds on the last exercise sets the day
\* Completed; a Completed day never leaves that state; and from then on
\* completeExercise and skipCurrentExercise return at their first line, so
\* they issue no remote call and change nothing.
C4_CompletedOnceAndFinal ==
  [][/\ LastExerciseSucceeds => isWorkoutCompleted' /\ HandlersReturnEarly'
     /\ isWorkoutCompleted => isWorkoutCompleted'
     /\ isWorkoutCompleted /\ HandlersReturnEarly => HandlersReturnEarly'
     /\ isWorkoutCompleted /\ HandlersReturnEarly /\ cPc = "idle"
          => cPc' = "idle"
     /\ isWorkoutCompleted /\ HandlersReturnEarly /\ sPc = "idle"
          => sPc' = "idle"]_vars

\* C4 witness: the last of two exercises was finished and the day is
\* Completed, the cursor past the end of the list.
C4_Witness ==
  /\ planN = 2
  /\ isWorkoutCompleted
  /\ currentExerciseIndex = Len(exercises)
  /\ alert = "Workout Complete!"
  /\ cPc = "idle" /\ sPc = "idle"

\* No remote call has failed and no exercise was skipped so far.
AllCompletedAllSucceed ==
  /\ fails = 0
  /\ skippedExercises = <<>>
  /\ sPc = "idle"
  /\ ~isSkippingExercise

\* C5: while every exercise is finished by completeExercise and every remote
\* call succeeds, a completion of an exercise that is not the last advances
\* the cursor by exactly one and calls no mark-day-complete; the completion
\* of the last exercise sets the day Completed, and mark-day-complete has
\* then been called exactly once.
C5_CompleteAllMarksOnce ==
  /\ [](AllCompletedAllSucceed =>
          /\ markCalls <= 1
          /\ (markCalls = 1 =>
                isWorkoutCompleted \/ cPc \in {"markOk", "refreshOk"})
          /\ (workout # 0 /\ currentExerciseIndex >= planN =>
                isWorkoutCompleted /\ markCalls = 1))
  /\ [][AllCompletedAllSucceed /\ cPc' # cPc =>
          /\ (cPc = "logOk" /\ cIdx < planN - 1 =>
                /\ currentExerciseIndex' = currentExerciseIndex + 1
                /\ markCalls' = markCalls
                /\ markCalls = 0)
          /\ (cPc = "logOk" /\ cIdx = planN - 1 =>
                /\ markCalls = 0 /\ markCalls' = 1
                /\ currentExerciseIndex' = currentExerciseIndex)
          /\ (cPc = "refreshOk" =>
                /\ isWorkoutCompleted'
                /\ markCalls' = 1
                /\ currentExerciseIndex' = planN)]_vars

\* C5 witness: a two-exercise day completed exercise by exercise with no
\* failure and no skip; mark-day-complete was called once.
C5_Witness ==
  /\ AllCompletedAllSucceed
  /\ planN = 2
  /\ isWorkoutCompleted
  /\ currentExerciseIndex = 2
  /\ markCalls = 1
  /\ \A i \in 1..2 : exerciseProgress[i].sets # <<>>

\* The remote call completeExercise is waiting for has failed.
CompleteCallFailed == cPc \in {"logFail", "markFail", "refreshFail"}

\* C6: when createExerciseLog, mark-day-complete or the dashboard refresh
\* fails inside completeExercise, the step that handles the failure leaves
\* the cursor, the day state and the recorded sets and notes as they are,
\* reports an error and ends the call, so that it can be invoked again; and
\* no earlier step of the call has changed cursor, day state or progress.
C6_FailedCompleteChangesNothing ==
  [][/\ CompleteCallFailed /\ cPc' # cPc =>
          /\ currentExerciseIndex' = currentExerciseIndex
          /\ isWorkoutCompleted' = isWorkoutCompleted
          /\ exerciseProgress' = exerciseProgress
          /\ alert' = "Error"
          /\ cPc' = "idle"
          /\ ~isCompletingExercise'
     /\ /\ cPc' # cPc
        /\ ~(cPc = "logOk" /\ cIdx < planN - 1)
        /\ cPc # "refreshOk"
        => /\ currentExerciseIndex' = currentExerciseIndex
           /\ isWorkoutCompleted' = isWorkoutCompleted
           /\ exerciseProgress' = exerciseProgress]_vars

\* C6 witness: on the last exercise the mark-day-complete call went through
\* and the dashboard refresh failed: the error is on screen, the cursor is
\* still on that exercise with its sets, the day is not Completed and
\* completeExercise can run again.
C6_Witness ==
  /\ alert = "Error"
  /\ fails = 1
  /\ markCalls = 1
  /\ serverComplete
  /\ ~isWorkoutCompleted
  /\ cPc = "idle" /\ ~isCompletingExercise
  /\ currentExerciseIndex = planN - 1
  /\ completeExerciseRuns
  /\ currentProgress.sets # <<>>
  /\ skippedExercises = <<>>

\* C7: the workout and exercise counters both grow by exactly 1 on each
\* tick delivered, ticks are delivered only while the session is not paused,
\* pausing and resuming change neither counter, and the workout counter is
\* the number of ticks delivered since the start.
C7_PauseFreezesCounters ==
  /\ [](workoutTimer = clockTicks /\ exerciseTimer <= workoutTimer)
  /\ [][/\ clockTicks' = clockTicks + 1 =>
             /\ ~isPaused
             /\ workoutTimer' = workoutTimer + 1
             /\ exerciseTimer' = exerciseTimer + 1
        /\ isPaused /\ isPaused' => workoutTimer' = workoutTimer
        /\ isPaused /\ isPaused' /\ currentExerciseIndex' = currentExerciseIndex
             => exerciseTimer' = exerciseTimer
        /\ isPaused' # isPaused /\ isWorkoutStarted' =>
             /\ workoutTimer' = workoutTimer
             /\ exerciseTimer' = exerciseTimer]_vars

\* C7 witness: the session is paused after one tick, both counters at 1.
C7_Witness ==
  /\ isWorkoutStarted
  /\ isPaused
  /\ clockTicks = 1
  /\ workoutTimer = 1
  /\ exerciseTimer = 1

\* C8: a rest countdown started at N is never negative, stands at N minus
\* the ticks delivered since, loses exactly 1 per tick and is 0 exactly when
\* N ticks have been delivered.
C8_RestCountdownExact ==
  /\ [](/\ restTimerCountdown >= 0
        /\ restTimerCountdown = restStart - restTicks)
  /\ [][restTicks' = restTicks + 1 =>
          /\ isRestTimerActive /\ ~isRestTimerPaused
          /\ restTimerCountdown' = restTimerCountdown - 1
          /\ (restTimerCountdown' = 0 <=> restTicks' = restStart)]_vars

\* C8 witness: a countdown started at MaxRest has reached 0 after MaxRest
\* ticks.
C8_Witness ==
  /\ restStart = MaxRest
  /\ restTicks = MaxRest
  /\ restTimerCountdown = 0
  /\ ~isRestTimerActive
  /\ showRestCompleteModal

\* C9 as stated: when the cursor moves to another exercise the rest timer is
\* inactive right after, and an active rest timer is always the one started
\* on the current exercise.
C9_RestTimerTiedToCurrentExercise ==
  /\ [](isRestTimerActive => restFor = currentExerciseIndex)
  /\ [][currentExerciseIndex' # currentExerciseIndex
          => ~isRestTimerActive']_vars

\* The status of the exercise at position i (from 0): current, else skipped,
\* else completed, else pending.
ExerciseStatus(i) ==
  IF isCurrent(i) THEN "Current"
  ELSE IF isSkipped(i) THEN "Skipped"
  ELSE IF isCompleted(i) THEN "Completed"
  ELSE "Pending"

\* Pending comes before Current, Current before Completed and Skipped.
StatusRank(status) ==
  CASE status = "Pending" -> 0
    [] status = "Current" -> 1
    [] OTHER -> 2

\* C10 as stated: every exercise has one status and no step moves the status
\* of an exercise back to an earlier one.
C10_StatusNeverRegresses ==
  [][\A i \in 0..(planN - 1) :
       StatusRank(ExerciseStatus(i)') >= StatusRank(ExerciseStatus(i))]_vars

\* C10: every exercise has exactly one status, and as long as the session
\* has not been reset by abandonment no step moves the status of an exercise
\* back to an earlier one.
C10_StatusRegressesOnlyOnAbandon ==
  [][~abandoned' =>
       \A i \in 0..(planN - 1) :
         StatusRank(ExerciseStatus(i)') >= StatusRank(ExerciseStatus(i))]_vars

\* C10 witness: exercise 0 was completed, exercise 1 skipped and the day
\* finished: one is Completed, the other Skipped.
C10_Witness ==
  /\ planN = 2
  /\ ~abandoned
  /\ isWorkoutCompleted
  /\ ExerciseStatus(0) = "Completed"
  /\ ExerciseStatus(1) = "Skipped"

\* C11 as stated: in every reachable state of a loaded plan day, states with
\* complete and skip calls in flight included, the cursor equals the exercise
\* count only if the day is Completed, and while the cursor is below the
\* exercise count exactly one exercise is current.
C11_CursorAtEndOnlyWhenCompleted ==
  /\ workout # 0 /\ currentExerciseIndex = Len(exercises)
       => isWorkoutCompleted
  /\ currentExerciseIndex < Len(exercises)
       => Cardinality({i \in 0..(Len(exercises) - 1) : isCurrent(i)}) = 1

\* The step ends a complete or skip call that went through for the exercise
\* at position i.
FinishedByCallFor(i) ==
  \/ cPc = "logOk" /\ cIdx = i /\ cPc' # cPc
  \/ sPc = "skipOk" /\ sIdx = i /\ sPc' # sPc

\* C12 as stated: in a session that is not abandoned, a step that makes an
\* exercise current makes the next exercise of the flattened order current,
\* and it is the step in which a remote complete or skip call for the
\* exercise before it has succeeded.
C12_CurrentInFlattenedOrder ==
  [][/\ ~abandoned'
     /\ currentExerciseIndex' # currentExerciseIndex
     /\ currentExerciseIndex' < planN
     => /\ currentExerciseIndex' = currentExerciseIndex + 1
        /\ FinishedByCallFor(currentExerciseIndex)]_vars

C14_ResetDiscardsProgress ==
  [][AbandonStep =>
       /\ clockTickers' = 0 /\ restTickers' = 0
       /\ ~isRestTimerActive'
       /\ \A i \in DOMAIN exerciseProgress' :
            /\ exerciseProgress'[i].sets = <<>>
            /\ ~exerciseProgress'[i].isSkipped
       /\ skippedExercises' = <<>>]_vars

\* C15 as stated: the date today's plan day is found by, the selected date
\* of the calendar and the startDate and endDate sent to the dashboard
\* refresh are the local calendar days, at every instant and every time zone
\* offset.
C15_DatesAreLocal ==
  /\ workout # 0 =>
       formatDateAsString(planDays[workout].date) = localDate(now, tzOffset)
  /\ selectedDate # <<>> => selectedDate[1] = localDate(now, tzOffset)
  /\ refreshRange # <<>> =>
       /\ refreshRange[1].startDate =
            localDate(setDate(now, 0 - HistoryDays), tzOffset)
       /\ refreshRange[1].endDate =
            localDate(setDate(now, AheadDays), tzOffset)

\* A step of skipCurrentExercise that follows a remote call it awaited.
SkipStepAfter(pc) == sPc = pc /\ sPc' # sPc

\* C16: no step of skipCurrentExercise touches the complete handler or its
\* createExerciseLog call; after a successful skipExercise the exercise is in
\* the skipped list and its progress record is marked, and then, when the
\* exercise is not the last one, the cursor grows by 1 and the exercise timer
\* is 0, and when it is the last one, markPlanDayAsComplete is called and
\* its success makes the day Completed with the cursor at the end; after a
\* failed skipExercise the cursor and the skipped list are unchanged.
C16_SkipAdvancesLikeComplete ==
  [][/\ sPc' # sPc => UNCHANGED compVars
     /\ SkipStepAfter("skipOk") =>
          /\ \E k \in DOMAIN skippedExercises' :
               skippedExercises'[k] = PlanExercise(sIdx + 1).id
          /\ exerciseProgress'[sIdx + 1].isSkipped
          /\ IF sIdx < planN - 1
               THEN /\ currentExerciseIndex' = currentExerciseIndex + 1
                    /\ exerciseTimer' = 0
                    /\ sPc' = "idle"
               ELSE /\ sPc' \in {"markOk", "markFail"}
                    /\ currentExerciseIndex' = currentExerciseIndex
     /\ SkipStepAfter("markOk") =>
          /\ isWorkoutCompleted'
          /\ currentExerciseIndex' = planN
     /\ SkipStepAfter("skipFail") =>
          UNCHANGED <<currentExerciseIndex, skippedExercises>>]_vars

\* C16 witness: on a plan day of two exercises, after at least one tick,
\* both exercises were skipped and the day is Completed.
C16_Witness ==
  /\ planN = 2
  /\ isSkipped(0) /\ isSkipped(1)
  /\ exerciseProgress[1].isSkipped /\ exerciseProgress[2].isSkipped
  /\ workoutTimer > 0
  /\ isWorkoutCompleted
  /\ currentExerciseIndex = 2
  /\ sPc = "idle"

\* C17: the step of completeExercise that follows a successful
\* createExerciseLog for an exercise that is not the last one raises the
\* cursor by exactly 1 and sets the exercise timer to 0, and changes neither
\* the workout timer, nor the paused flag, nor any progress record.
C17_CompleteAdvanceFrame ==
  [][cPc = "logOk" /\ cPc' # cPc /\ cIdx < planN - 1 =>
       /\ currentExerciseIndex' = currentExerciseIndex + 1
       /\ exerciseTimer' = 0
       /\ UNCHANGED <<workoutTimer, isPaused, exerciseProgress>>]_vars

\* C17 witness: exercise 0 was completed with its logged set while the
\* session was paused after MaxTime ticks; the cursor is on exercise 1, the
\* exercise timer is 0 and the workout timer still stands at MaxTime.
C17_Witness ==
  /\ planN = 2
  /\ currentExerciseIndex = 1
  /\ ~isSkipped(0)
  /\ exerciseProgress[1].sets # <<>>
  /\ cPc = "idle" /\ sPc = "idle"
  /\ isPaused
  /\ workoutTimer = MaxTime
  /\ exerciseTimer = 0

\* A loadWorkout call settles: fetchActiveWorkout resolved, or rejected.
LoadSettles == loadsPlain' + loadsForce' < loadsPlain + loadsForce
LoadOkStep == LoadSettles /\ fails' = fails
LoadFailStep == LoadSettles /\ fails' # fails

\* The plan day at position k of the response is dated today.
DatedToday(k) ==
  /\ k \in DOMAIN planDays
  /\ formatDateAsString(planDays[k].date) = getCurrentDate

\* C18 as stated: a successful load takes the first plan day of today's
\* date; without one the session has no workout; when that day is complete
\* the day is Completed and the progress records are left alone; otherwise
\* there is one progress record per flattened exercise, with an empty set
\* list, zero counters and the plan's weight, duration and rest time.  A
\* failed load sets the error, and after a successful load the error is
\* cleared.
C18_LoadSelectsToday ==
  [][/\ LoadOkStep =>
          /\ IF \A k \in DOMAIN planDays : ~DatedToday(k)
               THEN workout' = 0
               ELSE /\ DatedToday(workout')
                    /\ \A j \in 1..(workout' - 1) : ~DatedToday(j)
                    /\ IF planDays[workout'].isComplete
                         THEN /\ isWorkoutCompleted'
                              /\ exerciseProgress' = exerciseProgress
                         ELSE /\ Len(exerciseProgress') = planN
                              /\ \A i \in 1..planN :
                                   LET p == exerciseProgress'[i]
                                       e == PlanExercise(i)
                                   IN /\ p.sets = <<>>
                                      /\ p.setsCompleted = 0
                                      /\ p.repsCompleted = 0
                                      /\ p.roundsCompleted = 0
                                      /\ p.weightUsed = e.weight
                                      /\ p.duration = e.duration
                                      /\ p.restTime = e.restTime
          /\ ~error'
     /\ LoadFailStep => error']_vars

\* A firing of the rest interval after which the countdown stands at zero,
\* and a step that raises the rest-complete modal.
RestReachesZero == restTicks' = restTicks + 1 /\ restTimerCountdown' = 0
RestCompleteSignalled == showRestCompleteModal' /\ ~showRestCompleteModal

\* C19: the firing that brings the countdown to zero leaves the rest timer
\* inactive and unpaused with no rest ticker alive and raises the
\* rest-complete modal; the modal is raised in no other step, and only by
\* the last tick of a countdown, hence once per countdown; the rest timer
\* becomes active only on an exercise with a rest time above 0.
C19_RestCompleteOnce ==
  [][/\ RestReachesZero =>
          /\ ~isRestTimerActive'
          /\ ~isRestTimerPaused'
          /\ restTickers' = 0
          /\ RestCompleteSignalled
     /\ RestCompleteSignalled =>
          /\ RestReachesZero
          /\ restTicks' = restStart
     /\ ~isRestTimerActive /\ isRestTimerActive' =>
          /\ currentExercise.restTime > 0
          /\ restTimerCountdown' > 0]_vars

\* C19 witness: the workout is on exercise 0, whose countdown of MaxRest has
\* run out after MaxRest ticks and raised the modal; no rest ticker is alive.
C19_Witness ==
  /\ currentExerciseIndex = 0
  /\ isWorkoutStarted /\ ~isPaused
  /\ restFor = 0 /\ restStart = MaxRest /\ restTicks = MaxRest
  /\ showRestCompleteModal
  /\ ~isRestTimerActive /\ ~isRestTimerPaused
  /\ restTimerCountdown = 0
  /\ restTickers = 0 /\ ~restTimerRef

\* A step of a rest timer operation: toggleRestTimerPause, resetRestTimer,
\* cancelRestTimer or a firing of the rest interval (those and startRestTimer
\* are the steps that change the rest timer while the session stays started).
RestTimerStep ==
  /\ <<isRestTimerActive, isRestTimerPaused, restTimerCountdown>>' #
       <<isRestTimerActive, isRestTimerPaused, restTimerCountdown>>
  /\ isWorkoutStarted /\ isWorkoutStarted'

\* C20: togglePause of the workout changes neither the countdown nor the
\* active flag nor the paused flag of the rest timer, and leaves a live rest
\* ticker alive; a rest countdown that is active, not paused and above zero
\* has its ticker alive whether the workout is paused or not; every rest
\* timer operation leaves the workout timer, the exercise timer and the
\* paused flag of the workout unchanged.
C20_RestAndClockIndependent ==
  /\ [](/\ mounted
        /\ isRestTimerActive /\ ~isRestTimerPaused /\ restTimerCountdown > 0
        => restTickers = 1)
  /\ [][/\ isPaused' # isPaused /\ isWorkoutStarted' =>
            /\ UNCHANGED <<isRestTimerActive, isRestTimerPaused,
                           restTimerCountdown>>
            /\ restTickers' = restTickers
        /\ RestTimerStep =>
            UNCHANGED <<workoutTimer, exerciseTimer, isPaused>>]_vars

\* C20 witness: the workout was paused before the clock ticked once, and the
\* rest countdown started at MaxRest has ticked down to 1 with its ticker
\* alive and the clock ticker stopped.
C20_Witness ==
  /\ isWorkoutStarted /\ isPaused
  /\ workoutTimer = 0 /\ clockTicks = 0
  /\ clockTickers = 0
  /\ isRestTimerActive /\ ~isRestTimerPaused
  /\ restStart = MaxRest
  /\ restTicks = MaxRest - 1
  /\ restTimerCountdown = 1
  /\ restTickers = 1

\* C21: while the screen is mounted the workout-in-progress flag of the
\* context is true exactly when the session is started and not completed;
\* it is false once the day is Completed and false once the screen is torn
\* down.
C21_ContextFlagFollowsSession ==
  /\ mounted =>
       (isWorkoutInProgress <=> isWorkoutStarted /\ ~isWorkoutCompleted)
  /\ isWorkoutCompleted => ~isWorkoutInProgress
  /\ ~mounted => ~isWorkoutInProgress

\* C21 witness: the screen was torn down in the middle of a started session
\* and the flag is false.
C21_Witness ==
  /\ ~mounted
  /\ isWorkoutStarted /\ ~isWorkoutCompleted
  /\ currentExerciseIndex = 1
  /\ ~isWorkoutInProgress

\* C22 as stated: in every reachable state the overall progress percentage
\* lies between 0 and 100.
C22_ProgressPercentWithinBounds ==
  /\ 0 <= progressPercent
  /\ progressPercent <= 100

\* C23 as stated: once no fetchWeightAccuracy call is in flight,
\* weightAccuracy holds what the most recently issued call produced, and
\* after any call settles weightAccuracy is not null.
C23_LatestWeightAccuracyWins ==
  /\ [](waIssued > 0 /\ waCalls = {} => weightAccuracy = waLatest)
  /\ [][waCalls' # waCalls /\ waIssued' = waIssued
          => weightAccuracy' # Null]_vars

\* C24: in every reachable state the exercise timer is at most the workout
\* timer, and neither is negative.
C24_ExerciseTimerWithinWorkoutTimer ==
  /\ 0 <= exerciseTimer
  /\ exerciseTimer <= workoutTimer

\* C24 witness: the workout is on exercise 1 one tick after it moved there,
\* MaxTime ticks after the start.
C24_Witness ==
  /\ isWorkoutStarted
  /\ currentExerciseIndex = 1
  /\ workoutTimer = MaxTime
  /\ exerciseTimer = 1
  /\ clockTicks = MaxTime

\* C25 as stated: a successful load that settles while the session is
\* started and not completed, and that returns the plan day already loaded,
\* still incomplete, changes neither the progress records nor the cursor nor
\* the two timers.
C25_LoadInProgressKeepsProgress ==
  [][/\ LoadOkStep
     /\ isWorkoutStarted /\ ~isWorkoutCompleted
     /\ workout # 0 /\ workout' = workout
     /\ ~planDays[workout].isComplete
     => UNCHANGED <<exerciseProgress, currentExerciseIndex, workoutTimer,
                    exerciseTimer>>]_vars

\* A step that follows a successful markPlanDayAsComplete call.
MarkSucceeded ==
  \/ cPc = "markOk" /\ cPc' # cPc
  \/ sPc = "markOk" /\ sPc' # sPc

\* C26 as stated: createExerciseLog succeeds at most once for each exercise,
\* and markPlanDayAsComplete succeeds only for a plan day that no earlier
\* call has marked complete.
C26_RemoteCallsSucceedAtMostOnce ==
  /\ [](\A i \in DOMAIN exerciseLogs : exerciseLogs[i] <= 1)
  /\ [][MarkSucceeded /\ workout # 0 => ~planDays[workout].isComplete]_vars

\* C27 as stated: a step taken by the second of two overlapping handlers for
\* the same exercise does not move the cursor once the first has moved it
\* past that exercise, and the cursor stands at the exercise count only when
\* the day is Completed or markPlanDayAsComplete has been called.
C27_OverlapAdvancesOnce ==
  /\ [](workout # 0 /\ currentExerciseIndex = Len(exercises)
          => isWorkoutCompleted \/ markCalls > 0)
  /\ [][/\ ~abandoned'
        /\ \/ cPc = "logOk" /\ cPc' # cPc /\ currentExerciseIndex > cIdx
           \/ sPc = "skipOk" /\ sPc' # sPc /\ currentExerciseIndex > sIdx
        => currentExerciseIndex' = currentExerciseIndex]_vars

\* C28 as stated: loading is true exactly while at least one
\* fetchDashboardMetrics request is in flight; a request that settles either
\* failed, and then error is set and dashboardData is unchanged, or
\* succeeded, and then dashboardData is its response.
C28_LoadingWhileInFlight ==
  /\ [](dashLoading <=> dmCalls # {})
  /\ [][dmCalls' # dmCalls /\ dmIssued' = dmIssued =>
          \/ dashError' /\ dashboardData' = dashboardData
          \/ /\ dashError' = dashError
             /\ \E call \in dmCalls \ dmCalls' :
                  dashboardData' = Data(call.filter)]_vars

\* C29 as stated: for any sequence of handleNext, handlePrevious and
\* handleSubmit the current step stays within the six steps; the step goes
\* up only by one and only when validateStep accepts the current step;
\* errors are recorded only when it rejects the step, and then the step is
\* unchanged; onSubmit is called only when validateStep accepts the step.
C29_StepWithinSixSteps ==
  /\ [](currentStep \in Steps)
  /\ [][currentStep' > currentStep =>
          currentStep' = currentStep + 1 /\ validateStep(currentStep)]_vars
  /\ [][errors' # errors /\ errors' # <<>> =>
          /\ ~validateStep(currentStep)
          /\ errors' = <<currentStep>>
          /\ currentStep' = currentStep
          /\ onSubmitCalls' = onSubmitCalls]_vars
  /\ [][onSubmitCalls' # onSubmitCalls => validateStep(currentStep)]_vars

\* A string field of a server profile that is missing or matches no member
\* of the enum, whatever its case.
Unrecognised(v, enumObj) ==
  \/ v.kind = "missing"
  \/ v.kind = "string" /\ FindEnum(v.str, enumObj) = <<>>

\* C30 as stated: whatever profile the server sends, the converted form data
\* has intensityLevel in low/moderate/high (moderate when missing or
\* unrecognised), environment in home/gym/hybrid (home when missing or
\* unrecognised, as a string or as an array), gender and fitnessLevel matched
\* up to case with male and beginner as defaults, and array fields made of
\* enum members only.
C30_FormDataWithinEnums ==
  initialData # <<>> =>
    LET form   == initialData[1]
        server == profile[1]
    IN /\ form.intensityLevel \in Members(IntensityLevels)
       /\ Unrecognised(server.intensityLevel, IntensityLevels)
            => form.intensityLevel = "moderate"
       /\ form.environment # <<>>
       /\ \A i \in 1..Len(form.environment) :
            form.environment[i] \in Members(WorkoutEnvironments)
       /\ Unrecognised(server.environment, WorkoutEnvironments)
            => form.environment = <<"home">>
       /\ form.gender \in Members(Gender)
       /\ \A member \in Members(Gender) :
            server.gender.kind = "string"
              /\ toLowerCase(server.gender.str) = member
              => form.gender = member
       /\ Unrecognised(server.gender, Gender) => form.gender = "male"
       /\ form.fitnessLevel \in Members(FitnessLevels)
       /\ \A member \in Members(FitnessLevels) :
            server.fitnessLevel.kind = "string"
              /\ toLowerCase(server.fitnessLevel.str) = member
              => form.fitnessLevel = member
       /\ Unrecognised(server.fitnessLevel, FitnessLevels)
            => form.fitnessLevel = "beginner"
       /\ \A i \in 1..Len(form.goals) :
            form.goals[i] \in Members(FitnessGoals)
       /\ \A i \in 1..Len(form.preferredStyles) :
            form.preferredStyles[i] \in Members(PreferredStyles)
=============================================================================
